---- MODULE Spec2Model ----
(***************************************************************************)
(* The SOLID example snippets as state machines.  Every snippet (one "Bad" *)
(* or "Good" block set of one principle) is a standalone program: `loaded` *)
(* names the snippets whose classes exist in the run.  The objects of the  *)
(* classes that have fields live in per-class heaps (sequences in order of *)
(* allocation, an object's id is its index); `last` is the most recent     *)
(* operation of the client with what it was observed to do: the calls it   *)
(* made, what it returned, the error it raised.                            *)
(***************************************************************************)
EXTENDS Integers, Sequences, FiniteSets, TLC

VARIABLES loaded, badEmployees, goodEmployees, rectangles, shapes, last

vars == <<loaded, badEmployees, goodEmployees, rectangles, shapes, last>>

heaps == <<badEmployees, goodEmployees, rectangles, shapes>>

\* ---------------------------------------------------------------- bounds

\* Objects allocated per Employee class.
MaxEmployees == 2

\* Objects allocated per shape hierarchy.
MaxShapes == 2

\* Length of an array argument (employees, rectangles, shapes).
MaxLen == 2

\* The width, height or length a client passes, when it is not 0.
MaxDim == 2

\* ------------------------------------------------------ program constants

\* rectangle.setWidth(4) in renderLargeRectangles.
LargeWidth == 4

\* rectangle.setHeight(5) in renderLargeRectangles.
LargeHeight == 5

\* ------------------------------------------------------------ value sets

Snippets ==
    {"SRPBad", "SRPGood", "OCPBad", "OCPGood", "LSPBad", "LSPGood",
     "ISPBad", "ISPGood", "DIPBad", "DIPGood"}

\* A field declared without initialiser holds undefined until it is written.
Undefined == "undefined"

\* Values of selectedNotifyChannel: unset, the two the switch knows, and one
\* it does not know.
Channels == {Undefined, "SMS", "Email", "WhatsApp"}

\* Values a client writes to selectedNotifyChannel of a Good employee, whose
\* code never reads the field: the two channels that have a notifier class.
GoodChannels == {"SMS", "Email"}

\* Classes that satisfy the Notifier interface: the two of the snippet and the
\* one the README proposes to add.
Notifiers == {"EmailNotifier", "SMSNotifier", "WhatsAppNotifier"}

\* Sizes a client passes: zero and a positive one.
Dims == {0, MaxDim}

\* Arrays of object ids of a heap, at most MaxLen long.
Lists(heap) ==
    UNION {[1 .. n -> DOMAIN heap] : n \in 0 .. MaxLen}

NoError == "none"

Void == <<>>

\* A call one operation makes on an object: obj is its id in its heap (0 for
\* an object without fields).
Call(obj, class, method, args, ret) ==
    [obj |-> obj, class |-> class, method |-> method, args |-> args, ret |-> ret]

\* The record of an operation.  kind: "method", "function", "constructor",
\* "fieldWrite".
Op(kind, snippet, class, method, target, args, calls, ret, error) ==
    [kind |-> kind, snippet |-> snippet, class |-> class, method |-> method,
     target |-> target, args |-> args, calls |-> calls, ret |-> ret,
     error |-> error]

NoOp == Op("none", "none", "none", "none", 0, <<>>, <<>>, Void, NoError)

Is(op, snippet, class, method) ==
    /\ op.snippet = snippet
    /\ op.class = class
    /\ op.method = method

\* ------------------------------------------------------------------ Init

Init ==
    /\ loaded \in {{s} : s \in Snippets}
    /\ badEmployees = <<>>
    /\ goodEmployees = <<>>
    /\ rectangles = <<>>
    /\ shapes = <<>>
    /\ last = NoOp

\* ------------------------------------------- placeholder methods (// ...)

\* <<snippet, class, method, number of parameters>> of every method whose
\* body is the placeholder comment alone.
PlaceholderMethods ==
    {<<"SRPBad", "Salary", "calculateSalary", 0>>,
     <<"SRPBad", "Salary", "printPaycheck", 0>>,
     <<"SRPBad", "Salary", "saveData", 0>>,
     <<"SRPGood", "SalaryCalculate", "calculate", 0>>,
     <<"SRPGood", "SalaryPaycheck", "print", 0>>,
     <<"SRPGood", "SalaryPersistence", "save", 0>>,
     <<"OCPBad", "Employee", "sendEmailNotification", 0>>,
     <<"OCPBad", "Employee", "sendSMSNotification", 0>>,
     <<"OCPGood", "EmailNotifier", "notify", 0>>,
     <<"OCPGood", "SMSNotifier", "notify", 0>>,
     <<"LSPBad", "Rectangle", "setColor", 1>>,
     <<"LSPBad", "Rectangle", "render", 1>>,
     <<"LSPBad", "Square", "setColor", 1>>,
     <<"LSPBad", "Square", "render", 1>>,
     <<"LSPGood", "Shape", "setColor", 1>>,
     <<"LSPGood", "Shape", "render", 1>>,
     <<"ISPBad", "EmailNotifier", "notify", 0>>,
     <<"ISPBad", "EmailNotifier", "attachFile", 0>>,
     <<"ISPBad", "SMSNotifier", "notify", 0>>,
     <<"ISPGood", "EmailNotifier", "notify", 0>>,
     <<"ISPGood", "EmailNotifier", "attachFile", 0>>,
     <<"ISPGood", "SMSNotifier", "notify", 0>>}


\* The objects a placeholder method can be called on: 0 stands for an object
\* of a class without fields.
Targets(snippet, class) ==
    CASE snippet = "OCPBad" /\ class = "Employee" -> DOMAIN badEmployees
      [] snippet = "LSPBad" -> {r \in DOMAIN rectangles : rectangles[r].class = class}
      [] snippet = "LSPGood" -> DOMAIN shapes
      [] OTHER -> {0}

\* The argument lists a client passes to a method of n parameters.
Arguments(n) ==
    IF n = 0 THEN {<<>>} ELSE {<<a>> : a \in Dims}

\* CallPlaceholder with a body that is not empty: it raises.
CallPlaceholder_Raises(m, target, args) ==
    /\ m[1] \in loaded
    /\ target \in Targets(m[1], m[2])
    /\ args \in Arguments(m[4])
    /\ last' = Op("method", m[1], m[2], m[3], target, args, <<>>, Void,
                  "Not implemented")
    /\ UNCHANGED <<loaded, heaps>>

\* A method whose body is "// ...": nothing is read, written, called or raised.
CallPlaceholder(m, target, args) ==
    /\ m[1] \in loaded
    /\ target \in Targets(m[1], m[2])
    /\ args \in Arguments(m[4])
    /\ last' = Op("method", m[1], m[2], m[3], target, args, <<>>, Void, NoError)
    /\ UNCHANGED <<loaded, heaps>>

\* ------------------------------------------------------ OCP, Bad snippet

\* new Employee(): no constructor, selectedNotifyChannel has no initialiser.
Bad_Employee_new ==
    /\ "OCPBad" \in loaded
    /\ Len(badEmployees) < MaxEmployees
    /\ badEmployees' = Append(badEmployees, [selectedNotifyChannel |-> Undefined])
    /\ last' = Op("constructor", "OCPBad", "Employee", "constructor",
                  Len(badEmployees) + 1, <<>>, <<>>, Void, NoError)
    /\ UNCHANGED <<loaded, goodEmployees, rectangles, shapes>>

\* employee.selectedNotifyChannel = channel: the field is public.
Bad_Employee_setSelectedNotifyChannel(employee, channel) ==
    /\ "OCPBad" \in loaded
    /\ employee \in DOMAIN badEmployees
    /\ badEmployees' =
           [badEmployees EXCEPT ![employee].selectedNotifyChannel = channel]
    /\ last' = Op("fieldWrite", "OCPBad", "Employee", "selectedNotifyChannel",
                  employee, <<channel>>, <<>>, Void, NoError)
    /\ UNCHANGED <<loaded, goodEmployees, rectangles, shapes>>

RECURSIVE Bad_notifyAll_loop(_, _, _)
\* The for loop of notifyAll from element i on, calls being the calls made so
\* far: the switch on selectedNotifyChannel, whose default throws.
Bad_notifyAll_loop(employees, i, calls) ==
    IF i > Len(employees)
    THEN [calls |-> calls, error |-> NoError]
    ELSE LET employee == employees[i]
             channel == badEmployees[employee].selectedNotifyChannel
         IN  CASE channel = "SMS" ->
                      Bad_notifyAll_loop(employees, i + 1,
                          Append(calls, Call(employee, "Employee",
                                             "sendSMSNotification", <<>>, Void)))
               [] channel = "Email" ->
                      Bad_notifyAll_loop(employees, i + 1,
                          Append(calls, Call(employee, "Employee",
                                             "sendEmailNotification", <<>>, Void)))
               [] OTHER -> [calls |-> calls, error |-> "Unknown Channel"]

RECURSIVE Bad_notifyAll_loop_NoDefault(_, _, _)
Bad_notifyAll_loop_NoDefault(employees, i, calls) ==
    IF i > Len(employees)
    THEN [calls |-> calls, error |-> NoError]
    ELSE LET employee == employees[i]
             channel == badEmployees[employee].selectedNotifyChannel
         IN  CASE channel = "SMS" ->
                      Bad_notifyAll_loop_NoDefault(employees, i + 1,
                          Append(calls, Call(employee, "Employee",
                                             "sendSMSNotification", <<>>, Void)))
               [] channel = "Email" ->
                      Bad_notifyAll_loop_NoDefault(employees, i + 1,
                          Append(calls, Call(employee, "Employee",
                                             "sendEmailNotification", <<>>, Void)))
               [] OTHER -> Bad_notifyAll_loop_NoDefault(employees, i + 1, calls)

\* notifyAll whose switch has no default: an unknown channel is skipped.
Bad_notifyAll_NoDefault(employees) ==
    Bad_notifyAll_loop_NoDefault(employees, 1, <<>>)

\* notifyAll that checks every channel before it notifies anyone.
Bad_notifyAll_AllOrNothing(employees) ==
    IF \E i \in DOMAIN employees :
           badEmployees[employees[i]].selectedNotifyChannel \notin {"SMS", "Email"}
    THEN [calls |-> <<>>, error |-> "Unknown Channel"]
    ELSE Bad_notifyAll_loop(employees, 1, <<>>)

\* notifyAll with the bodies of the two cases exchanged.
Bad_notifyAll_SwappedCases(employees) ==
    LET out == Bad_notifyAll_loop(employees, 1, <<>>)
    IN  [out EXCEPT !.calls =
            [k \in DOMAIN out.calls |->
                [out.calls[k] EXCEPT !.method =
                    IF @ = "sendSMSNotification"
                    THEN "sendEmailNotification"
                    ELSE "sendSMSNotification"]]]

\* What NotifyManager.notifyAll(employees) of the Bad snippet does: the calls
\* it makes and the error it raises.
Bad_notifyAll(employees) ==
    Bad_notifyAll_loop(employees, 1, <<>>)

Bad_NotifyManager_notifyAll(employees) ==
    /\ "OCPBad" \in loaded
    /\ employees \in Lists(badEmployees)
    /\ LET out == Bad_notifyAll(employees)
       IN  last' = Op("method", "OCPBad", "NotifyManager", "notifyAll", 0,
                      <<employees>>, out.calls, Void, out.error)
    /\ UNCHANGED <<loaded, heaps>>

\* ----------------------------------------------------- OCP, Good snippet

\* new Employee(notifier): the constructor stores the notifier and nothing
\* else; selectedNotifyChannel has no initialiser.
Good_Employee_new(notifier) ==
    /\ "OCPGood" \in loaded
    /\ Len(goodEmployees) < MaxEmployees
    /\ goodEmployees' =
           Append(goodEmployees,
                  [notifier |-> notifier, selectedNotifyChannel |-> Undefined])
    /\ last' = Op("constructor", "OCPGood", "Employee", "constructor",
                  Len(goodEmployees) + 1, <<notifier>>, <<>>, Void, NoError)
    /\ UNCHANGED <<loaded, badEmployees, rectangles, shapes>>

\* employee.selectedNotifyChannel = channel: the field is public.
Good_Employee_setSelectedNotifyChannel(employee, channel) ==
    /\ "OCPGood" \in loaded
    /\ employee \in DOMAIN goodEmployees
    /\ goodEmployees' =
           [goodEmployees EXCEPT ![employee].selectedNotifyChannel = channel]
    /\ last' = Op("fieldWrite", "OCPGood", "Employee", "selectedNotifyChannel",
                  employee, <<channel>>, <<>>, Void, NoError)
    /\ UNCHANGED <<loaded, badEmployees, rectangles, shapes>>

\* sendNotification that picks the notifier by selectedNotifyChannel.
Good_sendNotification_ByChannel(employee) ==
    <<Call(employee,
           CASE goodEmployees[employee].selectedNotifyChannel = "Email" ->
                    "EmailNotifier"
             [] goodEmployees[employee].selectedNotifyChannel = "SMS" ->
                    "SMSNotifier"
             [] OTHER -> goodEmployees[employee].notifier,
           "notify", <<>>, Void)>>

\* The calls of employee.sendNotification(): this.notifier.notify(), whose
\* body is a placeholder in every notifier class.
Good_sendNotification(employee) ==
    <<Call(employee, goodEmployees[employee].notifier, "notify", <<>>, Void)>>

Good_Employee_sendNotification(employee) ==
    /\ "OCPGood" \in loaded
    /\ employee \in DOMAIN goodEmployees
    /\ last' = Op("method", "OCPGood", "Employee", "sendNotification", employee,
                  <<>>, Good_sendNotification(employee), Void, NoError)
    /\ UNCHANGED <<loaded, heaps>>

RECURSIVE Good_notifyAll_loop(_, _, _)
\* The for loop of notifyAll from element i on: employee.sendNotification()
\* and the calls that makes.
Good_notifyAll_loop(employees, i, calls) ==
    IF i > Len(employees)
    THEN [calls |-> calls, error |-> NoError]
    ELSE LET employee == employees[i]
         IN  Good_notifyAll_loop(employees, i + 1,
                 Append(calls, Call(employee, "Employee", "sendNotification",
                                    <<>>, Void))
                     \o Good_sendNotification(employee))

\* notifyAll that knows the two notifier classes of the snippet only.
Good_notifyAll_KnownNotifiersOnly(employees) ==
    IF \E i \in DOMAIN employees :
           goodEmployees[employees[i]].notifier \notin {"EmailNotifier", "SMSNotifier"}
    THEN [calls |-> <<>>, error |-> "Unknown Channel"]
    ELSE Good_notifyAll_loop(employees, 1, <<>>)

\* What NotifyManager.notifyAll(employees) of the Good snippet does.
Good_notifyAll(employees) ==
    Good_notifyAll_loop(employees, 1, <<>>)

Good_NotifyManager_notifyAll(employees) ==
    /\ "OCPGood" \in loaded
    /\ employees \in Lists(goodEmployees)
    /\ LET out == Good_notifyAll(employees)
       IN  last' = Op("method", "OCPGood", "NotifyManager", "notifyAll", 0,
                      <<employees>>, out.calls, Void, out.error)
    /\ UNCHANGED <<loaded, heaps>>


\* ------------------------------------------------------ LSP, Bad snippet

\* new Rectangle(): the constructor sets both fields to 0.
LSPBad_Rectangle_constructor(class) ==
    [class |-> class, width |-> 0, height |-> 0]

LSPBad_Rectangle_setWidth(this, width) ==
    [this EXCEPT !.width = width]

LSPBad_Rectangle_setHeight(this, height) ==
    [this EXCEPT !.height = height]

\* Square without its override of setWidth.
LSPBad_Square_setWidth_Inherited(this, width) ==
    [this EXCEPT !.width = width]

LSPBad_Square_setWidth(this, width) ==
    [this EXCEPT !.width = width, !.height = width]

\* Square without its override of setHeight.
LSPBad_Square_setHeight_Inherited(this, height) ==
    [this EXCEPT !.height = height]

LSPBad_Square_setHeight(this, height) ==
    [this EXCEPT !.width = height, !.height = height]

\* Rectangle.getArea, which Square inherits.
LSPBad_getArea(this) ==
    this.width * this.height

\* this.setWidth(width) by the class of this: Square overrides Rectangle.
LSPBad_setWidth(this, width) ==
    IF this.class = "Square"
    THEN LSPBad_Square_setWidth(this, width)
    ELSE LSPBad_Rectangle_setWidth(this, width)

\* this.setHeight(height) by the class of this.
LSPBad_setHeight(this, height) ==
    IF this.class = "Square"
    THEN LSPBad_Square_setHeight(this, height)
    ELSE LSPBad_Rectangle_setHeight(this, height)

\* new Rectangle() and new Square(): Square inherits the constructor.
LSPBad_new(class) ==
    /\ "LSPBad" \in loaded
    /\ Len(rectangles) < MaxShapes
    /\ rectangles' = Append(rectangles, LSPBad_Rectangle_constructor(class))
    /\ last' = Op("constructor", "LSPBad", class, "constructor",
                  Len(rectangles) + 1, <<>>, <<>>, Void, NoError)
    /\ UNCHANGED <<loaded, badEmployees, goodEmployees, shapes>>

LSPBad_call_setWidth(rectangle, width) ==
    /\ "LSPBad" \in loaded
    /\ rectangle \in DOMAIN rectangles
    /\ rectangles' =
           [rectangles EXCEPT ![rectangle] = LSPBad_setWidth(@, width)]
    /\ last' = Op("method", "LSPBad", rectangles[rectangle].class, "setWidth",
                  rectangle, <<width>>, <<>>, Void, NoError)
    /\ UNCHANGED <<loaded, badEmployees, goodEmployees, shapes>>

LSPBad_call_setHeight(rectangle, height) ==
    /\ "LSPBad" \in loaded
    /\ rectangle \in DOMAIN rectangles
    /\ rectangles' =
           [rectangles EXCEPT ![rectangle] = LSPBad_setHeight(@, height)]
    /\ last' = Op("method", "LSPBad", rectangles[rectangle].class, "setHeight",
                  rectangle, <<height>>, <<>>, Void, NoError)
    /\ UNCHANGED <<loaded, badEmployees, goodEmployees, shapes>>

LSPBad_call_getArea(rectangle) ==
    /\ "LSPBad" \in loaded
    /\ rectangle \in DOMAIN rectangles
    /\ last' = Op("method", "LSPBad", rectangles[rectangle].class, "getArea",
                  rectangle, <<>>, <<>>,
                  <<LSPBad_getArea(rectangles[rectangle])>>, NoError)
    /\ UNCHANGED <<loaded, heaps>>

RECURSIVE LSPBad_renderLargeRectangles_loop(_, _, _, _)
\* rectangles.forEach from element i on, over the heap as the earlier
\* elements left it: setWidth(4), setHeight(5), getArea(), render(area).
LSPBad_renderLargeRectangles_loop(list, i, heap, calls) ==
    IF i > Len(list)
    THEN [heap |-> heap, calls |-> calls]
    ELSE LET rectangle == list[i]
             class == heap[rectangle].class
             wide == LSPBad_setWidth(heap[rectangle], LargeWidth)
             high == LSPBad_setHeight(wide, LargeHeight)
             area == LSPBad_getArea(high)
         IN  LSPBad_renderLargeRectangles_loop(list, i + 1,
                 [heap EXCEPT ![rectangle] = high],
                 calls \o
                 <<Call(rectangle, class, "setWidth", <<LargeWidth>>, Void),
                   Call(rectangle, class, "setHeight", <<LargeHeight>>, Void),
                   Call(rectangle, class, "getArea", <<>>, <<area>>),
                   Call(rectangle, class, "render", <<area>>, Void)>>)

LSPBad_renderLargeRectangles(list) ==
    /\ "LSPBad" \in loaded
    /\ list \in Lists(rectangles)
    /\ LET out == LSPBad_renderLargeRectangles_loop(list, 1, rectangles, <<>>)
       IN  /\ rectangles' = out.heap
           /\ last' = Op("function", "LSPBad", "", "renderLargeRectangles", 0,
                         <<list>>, out.calls, Void, NoError)
    /\ UNCHANGED <<loaded, badEmployees, goodEmployees, shapes>>

\* ----------------------------------------------------- LSP, Good snippet

LSPGood_Rectangle_new(width, height) ==
    /\ "LSPGood" \in loaded
    /\ Len(shapes) < MaxShapes
    /\ shapes' = Append(shapes,
                        [class |-> "Rectangle", width |-> width, height |-> height])
    /\ last' = Op("constructor", "LSPGood", "Rectangle", "constructor",
                  Len(shapes) + 1, <<width, height>>, <<>>, Void, NoError)
    /\ UNCHANGED <<loaded, badEmployees, goodEmployees, rectangles>>

LSPGood_Square_new(length) ==
    /\ "LSPGood" \in loaded
    /\ Len(shapes) < MaxShapes
    /\ shapes' = Append(shapes, [class |-> "Square", length |-> length])
    /\ last' = Op("constructor", "LSPGood", "Square", "constructor",
                  Len(shapes) + 1, <<length>>, <<>>, Void, NoError)
    /\ UNCHANGED <<loaded, badEmployees, goodEmployees, rectangles>>

\* shape.getArea() by the class of shape.
LSPGood_getArea(this) ==
    IF this.class = "Square"
    THEN this.length * this.length
    ELSE this.width * this.height

LSPGood_call_getArea(shape) ==
    /\ "LSPGood" \in loaded
    /\ shape \in DOMAIN shapes
    /\ last' = Op("method", "LSPGood", shapes[shape].class, "getArea", shape,
                  <<>>, <<>>, <<LSPGood_getArea(shapes[shape])>>, NoError)
    /\ UNCHANGED <<loaded, heaps>>

\* shapes.forEach: getArea(), render(area).
LSPGood_renderLargeShapes_calls(list) ==
    [k \in 1 .. 2 * Len(list) |->
        LET shape == list[(k + 1) \div 2]
            area == LSPGood_getArea(shapes[shape])
        IN  IF k % 2 = 1
            THEN Call(shape, shapes[shape].class, "getArea", <<>>, <<area>>)
            ELSE Call(shape, shapes[shape].class, "render", <<area>>, Void)]

LSPGood_renderLargeShapes(list) ==
    /\ "LSPGood" \in loaded
    /\ list \in Lists(shapes)
    /\ last' = Op("function", "LSPGood", "", "renderLargeShapes", 0, <<list>>,
                  LSPGood_renderLargeShapes_calls(list), Void, NoError)
    /\ UNCHANGED <<loaded, heaps>>

\* ------------------------------------------------------ ISP, Bad snippet

\* attachFile that does nothing instead of raising.
ISPBad_attachFile_DoesNothing ==
    NoError

\* What SMSNotifier.attachFile() of the Bad snippet raises.
ISPBad_attachFile_error ==
    "SMS doesn't support attaching files"

ISPBad_SMSNotifier_attachFile ==
    /\ "ISPBad" \in loaded
    /\ last' = Op("method", "ISPBad", "SMSNotifier", "attachFile", 0, <<>>,
                  <<>>, Void, ISPBad_attachFile_error)
    /\ UNCHANGED <<loaded, heaps>>

\* ------------------------------------------------------------------- DIP

\* MySQLConnection.connect() of either DIP snippet.
DIP_MySQLConnection_connect(snippet) ==
    /\ snippet \in {"DIPBad", "DIPGood"} \cap loaded
    /\ last' = Op("method", snippet, "MySQLConnection", "connect", 0, <<>>,
                  <<>>, <<"Database connection">>, NoError)
    /\ UNCHANGED <<loaded, heaps>>

\* ------------------------------------------------------------------ Next

Next ==
    \/ \E m \in {p \in PlaceholderMethods : p[1] \in loaded} :
           \E target \in Targets(m[1], m[2]), args \in Arguments(m[4]) :
               CallPlaceholder(m, target, args)
    \/ Bad_Employee_new
    \/ \E employee \in DOMAIN badEmployees, channel \in Channels :
           Bad_Employee_setSelectedNotifyChannel(employee, channel)
    \/ \E employees \in Lists(badEmployees) :
           Bad_NotifyManager_notifyAll(employees)
    \/ \E notifier \in Notifiers : Good_Employee_new(notifier)
    \/ \E employee \in DOMAIN goodEmployees, channel \in GoodChannels :
           Good_Employee_setSelectedNotifyChannel(employee, channel)
    \/ \E employee \in DOMAIN goodEmployees :
           Good_Employee_sendNotification(employee)
    \/ \E employees \in Lists(goodEmployees) :
           Good_NotifyManager_notifyAll(employees)
    \/ \E class \in {"Rectangle", "Square"} : LSPBad_new(class)
    \/ \E rectangle \in DOMAIN rectangles, width \in Dims :
           LSPBad_call_setWidth(rectangle, width)
    \/ \E rectangle \in DOMAIN rectangles, height \in Dims :
           LSPBad_call_setHeight(rectangle, height)
    \/ \E rectangle \in DOMAIN rectangles : LSPBad_call_getArea(rectangle)
    \/ \E list \in Lists(rectangles) : LSPBad_renderLargeRectangles(list)
    \/ \E width \in Dims, height \in Dims : LSPGood_Rectangle_new(width, height)
    \/ \E length \in Dims : LSPGood_Square_new(length)
    \/ \E shape \in DOMAIN shapes : LSPGood_call_getArea(shape)
    \/ \E list \in Lists(shapes) : LSPGood_renderLargeShapes(list)
    \/ ISPBad_SMSNotifier_attachFile
    \/ \E snippet \in {"DIPBad", "DIPGood"} : DIP_MySQLConnection_connect(snippet)

Spec == Init /\ [][Next]_vars

\* The two OCP snippets side by side, for comparing their notifyAll: the
\* notifiers are the two classes of the Good snippet, and since the Good
\* notifyAll never reads selectedNotifyChannel of a Good employee, that field
\* stays unwritten.
InitOCP ==
    /\ loaded = {"OCPBad", "OCPGood"}
    /\ badEmployees = <<>>
    /\ goodEmployees = <<>>
    /\ rectangles = <<>>
    /\ shapes = <<>>
    /\ last = NoOp

NextOCP ==
    \/ Bad_Employee_new
    \/ \E employee \in DOMAIN badEmployees, channel \in Channels :
           Bad_Employee_setSelectedNotifyChannel(employee, channel)
    \/ \E employees \in Lists(badEmployees) :
           Bad_NotifyManager_notifyAll(employees)
    \/ \E notifier \in {"EmailNotifier", "SMSNotifier"} :
           Good_Employee_new(notifier)
    \/ \E employees \in Lists(goodEmployees) :
           Good_NotifyManager_notifyAll(employees)

SpecOCP == InitOCP /\ [][NextOCP]_vars


\* ---------------------------------------------------------------- claims

IsBadNotifyAll(op) == Is(op, "OCPBad", "NotifyManager", "notifyAll")

IsGoodNotifyAll(op) == Is(op, "OCPGood", "NotifyManager", "notifyAll")

\* The channel of the Bad employee at position i of an employees array is
\* one the switch has no case for.
UnknownAt(employees, i) ==
    badEmployees[employees[i]].selectedNotifyChannel \notin {"SMS", "Email"}

\* The send method of the Bad Employee for a channel.
SendMethod(channel) ==
    IF channel = "SMS" THEN "sendSMSNotification" ELSE "sendEmailNotification"

\* The notifier class for a channel.
NotifierFor(channel) ==
    IF channel = "SMS" THEN "SMSNotifier" ELSE "EmailNotifier"

\* C1: in the OCP Bad snippet notifyAll(employees) raises 'Unknown Channel'
\* exactly when some employee of the array has a selectedNotifyChannel that is
\* neither 'SMS' nor 'Email' (unset included), and raises nothing otherwise.
C1_NotifyAllRaisesIffUnknownChannel ==
    IsBadNotifyAll(last) =>
        LET employees == last.args[1]
        IN  /\ last.error \in {NoError, "Unknown Channel"}
            /\ (last.error = "Unknown Channel")
                   <=> (\E i \in DOMAIN employees : UnknownAt(employees, i))

\* notifyAll has raised on an array whose first employee never chose a
\* channel and whose second employee chose 'Email'.
C1_Witness ==
    /\ IsBadNotifyAll(last)
    /\ last.error = "Unknown Channel"
    /\ Len(last.args[1]) = 2
    /\ badEmployees[last.args[1][1]].selectedNotifyChannel = Undefined
    /\ badEmployees[last.args[1][2]].selectedNotifyChannel = "Email"

\* C2: in the OCP Good snippet notifyAll completes without error for
\* employees constructed with notifiers of any class, the snippet's two or a
\* new one, and calls the notify() of each employee's own notifier once per
\* occurrence of the employee in the array, in array order.
C2_GoodNotifyAllOpenForExtension ==
    IsGoodNotifyAll(last) =>
        LET employees == last.args[1]
            notifies == SelectSeq(last.calls, LAMBDA c : c.method = "notify")
        IN  /\ last.error = NoError
            /\ Len(notifies) = Len(employees)
            /\ \A i \in DOMAIN employees :
                   notifies[i] =
                       Call(employees[i], goodEmployees[employees[i]].notifier,
                            "notify", <<>>, Void)

\* notifyAll has run over an array that holds an employee with a notifier of
\* the new class, and some employee twice.
C2_Witness ==
    /\ IsGoodNotifyAll(last)
    /\ LET employees == last.args[1]
       IN  /\ Len(employees) >= 2
           /\ employees[1] = employees[2]
           /\ goodEmployees[employees[1]].notifier = "WhatsAppNotifier"

\* The areas getArea() returned inside the last renderLargeRectangles.
RenderedAreaOk(list, i) ==
    LET c == last.calls[4 * i - 1]
    IN  /\ c.obj = list[i]
        /\ c.method = "getArea"
        /\ c.ret = <<IF rectangles[list[i]].class = "Rectangle" THEN 20 ELSE 25>>

C3_RenderLarge ==
    Is(last, "LSPBad", "", "renderLargeRectangles") =>
        /\ Len(last.calls) = 4 * Len(last.args[1])
        /\ \A i \in DOMAIN last.args[1] : RenderedAreaOk(last.args[1], i)

\* A step that is rectangle.setHeight(h) right after rectangle.setWidth(w).
C3_WidthThenHeight ==
    \A r \in DOMAIN rectangles :
        (/\ last.kind = "method" /\ last.snippet = "LSPBad"
         /\ last.method = "setWidth" /\ last.target = r
         /\ last'.kind = "method" /\ last'.snippet = "LSPBad"
         /\ last'.method = "setHeight" /\ last'.target = r)
        => LSPBad_getArea(rectangles'[r]) =
               IF rectangles[r].class = "Rectangle"
               THEN last.args[1] * last'.args[1]
               ELSE last'.args[1] * last'.args[1]

\* C3: in the LSP Bad snippet, for every element of the array given to
\* renderLargeRectangles getArea() returns 20 for a Rectangle and 25 for a
\* Square; after setWidth(w) then setHeight(h) the area of a Rectangle is w*h
\* and that of a Square is h*h.
C3_AreaAfterSetWidthSetHeight ==
    [](C3_RenderLarge) /\ [][C3_WidthThenHeight]_vars

\* renderLargeRectangles has run over a Rectangle and a Square.
C3_Witness ==
    /\ Is(last, "LSPBad", "", "renderLargeRectangles")
    /\ Len(last.args[1]) = 2
    /\ rectangles[last.args[1][1]].class = "Rectangle"
    /\ rectangles[last.args[1][2]].class = "Square"
    /\ last.calls[3].ret = <<20>>
    /\ last.calls[7].ret = <<25>>

\* C4: in the ISP Bad snippet SMSNotifier.attachFile() raises on every call,
\* whatever was called before, and SMSNotifier.notify(), EmailNotifier.notify()
\* and EmailNotifier.attachFile() never raise.
C4_OnlySmsAttachFileRaises ==
    (last.kind = "method" /\ last.snippet = "ISPBad") =>
        IF last.class = "SMSNotifier" /\ last.method = "attachFile"
        THEN last.error = "SMS doesn't support attaching files"
        ELSE /\ last.class \in {"SMSNotifier", "EmailNotifier"}
             /\ last.method \in {"notify", "attachFile"}
             /\ last.error = NoError

\* SMSNotifier.attachFile() has raised.
C4_Witness ==
    /\ Is(last, "ISPBad", "SMSNotifier", "attachFile")
    /\ last.error # NoError

\* The step is a call of a method whose body is the placeholder.
IsPlaceholderCall(op) ==
    /\ op.kind = "method"
    /\ <<op.snippet, op.class, op.method, Len(op.args)>> \in PlaceholderMethods

\* The step changed no field, called nothing, returned and raised nothing.
NoBehaviour ==
    /\ UNCHANGED heaps
    /\ last'.calls = <<>>
    /\ last'.ret = Void
    /\ last'.error = NoError

\* C5 as stated: every method of every example class is an empty placeholder,
\* so a call of any method changes no field, calls no other method and raises
\* no error.
C5_Original ==
    [][last'.kind = "method" => NoBehaviour]_vars

\* C5 amended: every method whose body is the placeholder comment changes no
\* field, calls no other method, returns nothing and raises no error.
C5_PlaceholdersHaveNoBehaviour ==
    [][IsPlaceholderCall(last') => NoBehaviour]_vars

\* A placeholder method has been called on an object whose fields are set.
C5_Witness ==
    /\ Is(last, "LSPBad", "Square", "render")
    /\ rectangles[last.target].width > 0
    /\ last.args = <<rectangles[last.target].width>>

C6_State ==
    /\ (last.kind = "constructor" /\ last.snippet = "OCPGood") =>
           goodEmployees[last.target] =
               [notifier |-> last.args[1], selectedNotifyChannel |-> Undefined]
    /\ Is(last, "OCPGood", "Employee", "sendNotification") =>
           /\ last.error = NoError
           /\ last.calls =
                  <<Call(last.target, goodEmployees[last.target].notifier,
                         "notify", <<>>, Void)>>

C6_NotifierKept ==
    \A e \in DOMAIN goodEmployees :
        goodEmployees'[e].notifier = goodEmployees[e].notifier

Notifications(calls) ==
    LET sent == SelectSeq(calls,
                    LAMBDA c : c.method \in {"sendSMSNotification",
                                             "sendEmailNotification", "notify"})
    IN  [k \in DOMAIN sent |->
            <<sent[k].obj,
              CASE sent[k].method = "sendSMSNotification" -> "SMS"
                [] sent[k].method = "sendEmailNotification" -> "Email"
                [] sent[k].class = "SMSNotifier" -> "SMS"
                [] sent[k].class = "EmailNotifier" -> "Email"
                [] OTHER -> "WhatsApp">>]

\* Every employee of the array exists in both snippets, has a channel the
\* Bad switch knows, and was constructed in the Good snippet with the notifier
\* of that channel.
Matching(employees) ==
    \A i \in DOMAIN employees :
        /\ employees[i] \in DOMAIN badEmployees \cap DOMAIN goodEmployees
        /\ ~UnknownAt(employees, i)
        /\ goodEmployees[employees[i]].notifier =
               NotifierFor(badEmployees[employees[i]].selectedNotifyChannel)

\* C8: on an array of employees with channel 'SMS' or 'Email', each Good
\* employee constructed with the notifier of that channel, the Bad and the
\* Good notifyAll send the same notifications (same channel to the same
\* employee, in array order, one per element) and neither raises.
C8_BadAndGoodNotifyAllAgree ==
    ((IsBadNotifyAll(last) \/ IsGoodNotifyAll(last)) /\ Matching(last.args[1])) =>
        LET employees == last.args[1]
            bad == IF IsBadNotifyAll(last) THEN last ELSE Bad_notifyAll(employees)
            good == IF IsGoodNotifyAll(last) THEN last ELSE Good_notifyAll(employees)
        IN  /\ bad.error = NoError
            /\ good.error = NoError
            /\ Notifications(bad.calls) = Notifications(good.calls)
            /\ Notifications(bad.calls) =
                   [i \in DOMAIN employees |->
                       <<employees[i],
                         badEmployees[employees[i]].selectedNotifyChannel>>]

\* The Good notifyAll has run over an SMS employee and an Email employee that
\* match their Bad counterparts.
C8_Witness ==
    /\ IsGoodNotifyAll(last)
    /\ Matching(last.args[1])
    /\ Len(last.args[1]) >= 2
    /\ badEmployees[last.args[1][1]].selectedNotifyChannel = "SMS"
    /\ badEmployees[last.args[1][2]].selectedNotifyChannel = "Email"

\* The first position of an employees array with an unknown channel.
FirstUnknown(employees) ==
    CHOOSE k \in DOMAIN employees :
        /\ UnknownAt(employees, k)
        /\ \A j \in 1 .. k - 1 : ~UnknownAt(employees, j)

\* C9: when the Bad notifyAll raises, every employee before the first one
\* with an unknown channel has been notified once through its own channel, in
\* order, and nobody at or after that position has been notified.
C9_NotifyAllStopsAtFirstUnknown ==
    (IsBadNotifyAll(last) /\ last.error = "Unknown Channel") =>
        LET employees == last.args[1]
        IN  /\ \E i \in DOMAIN employees : UnknownAt(employees, i)
            /\ Len(last.calls) = FirstUnknown(employees) - 1
            /\ \A i \in 1 .. FirstUnknown(employees) - 1 :
                   last.calls[i] =
                       Call(employees[i], "Employee",
                            SendMethod(badEmployees[employees[i]].selectedNotifyChannel),
                            <<>>, Void)

\* notifyAll has raised at the second employee, whose channel is one the
\* switch does not know, after it notified the first by SMS.
C9_Witness ==
    /\ IsBadNotifyAll(last)
    /\ last.error = "Unknown Channel"
    /\ FirstUnknown(last.args[1]) = 2
    /\ badEmployees[last.args[1][2]].selectedNotifyChannel = "WhatsApp"
    /\ Len(last.calls) = 1
    /\ last.calls[1].method = "sendSMSNotification"

C10_SquareInv ==
    \A r \in DOMAIN rectangles :
        rectangles[r].class = "Square" =>
            rectangles[r].width = rectangles[r].height

\* What a step that is setWidth or setHeight on r does to the two fields.
C10_Setters ==
    \A r \in DOMAIN rectangles :
        (last'.kind = "method" /\ last'.snippet = "LSPBad" /\ last'.target = r) =>
            LET old == rectangles[r]
                new == rectangles'[r]
                arg == last'.args[1]
            IN  /\ last'.method = "setWidth" =>
                    /\ new.width = arg
                    /\ new.height = IF old.class = "Square" THEN arg ELSE old.height
                /\ last'.method = "setHeight" =>
                    /\ new.height = arg
                    /\ new.width = IF old.class = "Square" THEN arg ELSE old.width
                /\ last'.method \in {"setColor", "render", "getArea"} =>
                    new = old

\* C10: in the LSP Bad snippet a Square has width = height after construction
\* and after every setWidth, setHeight, setColor and render; setWidth on a
\* Square sets height too and setHeight sets width too, while on a Rectangle
\* setWidth leaves height and setHeight leaves width as it was.
C10_SquareKeepsWidthEqualHeight ==
    [](C10_SquareInv) /\ [][C10_Setters]_vars

\* setWidth on a Square has changed its height.
C10_Witness ==
    /\ Is(last, "LSPBad", "Square", "setWidth")
    /\ last.args[1] > 0
    /\ rectangles[last.target].height = last.args[1]
    /\ \E r \in DOMAIN rectangles :
           /\ rectangles[r].class = "Rectangle"
           /\ rectangles[r].width # rectangles[r].height

====
